---- MODULE Spec2Model ----
(***************************************************************************)
(* Model of src/app.py (Gestor Web de Desvinculados): the field            *)
(* normalizers, the three ingestion paths (cargar_db, procesar_csv,        *)
(* procesar_ods followed by the top-level merge) and the "Guardar cambios" *)
(* commit, acting on the resident dataset st.session_state.data.           *)
(*                                                                         *)
(* Conventions.  A nullable value is a sequence of length 0 (null) or 1    *)
(* (the value).  A text value is a sequence of one-character strings, so   *)
(* that lower(), replace(), strip() and the regular expression of          *)
(* normalizar_fecha are computed character by character.  A data frame is  *)
(* a sequence of rows.                                                     *)
(***************************************************************************)
EXTENDS Integers, Sequences, FiniteSets, TLC

VARIABLES data, db_cargada, req, last, call

vars == <<data, db_cargada, req, last, call>>

----------------------------------------------------------------------------
(* Bounds of the model. *)

\* Largest positive client number the uploads and the editor use.
MaxKey == 2
\* Largest number of rows in one uploaded file.
MaxBatch == 2
\* Largest number of rows the resident dataset may hold.
MaxRows == 2

----------------------------------------------------------------------------
(* Nullable values and text. *)

Null == <<>>
Some(x) == <<x>>
IsNull(v) == v = <<>>
Val(v) == v[1]

Digits == <<"0", "1", "2", "3", "4", "5", "6", "7", "8", "9">>
UpperLetters == <<"A", "B", "C", "D", "E", "F", "G", "H", "I", "J", "K", "L", "M",
                  "N", "O", "P", "Q", "R", "S", "T", "U", "V", "W", "X", "Y", "Z">>
LowerLetters == <<"a", "b", "c", "d", "e", "f", "g", "h", "i", "j", "k", "l", "m",
                  "n", "o", "p", "q", "r", "s", "t", "u", "v", "w", "x", "y", "z">>

Range(s) == {s[i] : i \in DOMAIN s}
DigitSet == Range(Digits)
LowerSet == Range(LowerLetters)
Whitespace == {" ", "\t"}

\* str.lower() on one character.
lower_char(c) ==
    IF \E i \in DOMAIN UpperLetters : UpperLetters[i] = c
    THEN LowerLetters[CHOOSE i \in DOMAIN UpperLetters : UpperLetters[i] = c]
    ELSE c

\* str.lower()
str_lower(s) == [i \in DOMAIN s |-> lower_char(s[i])]

\* str.replace('.', '')
str_remove_dots(s) == SelectSeq(s, LAMBDA c : c # ".")

\* str.strip()
str_strip(s) ==
    IF \A i \in DOMAIN s : s[i] \in Whitespace
    THEN <<>>
    ELSE LET first == CHOOSE i \in DOMAIN s :
                          s[i] \notin Whitespace /\ \A j \in 1..(i - 1) : s[j] \in Whitespace
             lst == CHOOSE i \in DOMAIN s :
                          s[i] \notin Whitespace /\ \A j \in (i + 1)..Len(s) : s[j] \in Whitespace
         IN  SubSeq(s, first, lst)

\* The length of the longest run of characters of S that starts at position i.
RunLen(s, i, S) ==
    CHOOSE n \in 0..(Len(s) + 1 - i) :
        /\ \A j \in i..(i + n - 1) : s[j] \in S
        /\ (i + n > Len(s) \/ s[i + n] \notin S)

DigitVal(c) == (CHOOSE i \in DOMAIN Digits : Digits[i] = c) - 1
DigitChar(n) == Digits[n + 1]

\* int() of a string of decimal digits.
RECURSIVE IntOf(_)
IntOf(s) == IF s = <<>> THEN 0 ELSE 10 * IntOf(SubSeq(s, 1, Len(s) - 1)) + DigitVal(s[Len(s)])

Pad2(n) == <<DigitChar(n \div 10), DigitChar(n % 10)>>
Pad4(n) == <<DigitChar(n \div 1000), DigitChar((n \div 100) % 10)>> \o Pad2(n % 100)

----------------------------------------------------------------------------
(* Constants of the program. *)

\* DATE_FORMAT = '%Y-%m-%d', as strftime writes it.
strftime(y, m, d) == Pad4(y) \o <<"-">> \o Pad2(m) \o <<"-">> \o Pad2(d)

MONTH_MAPPING ==
    [abbr \in {<<"e", "n", "e">>, <<"f", "e", "b">>, <<"m", "a", "r">>, <<"a", "b", "r">>,
               <<"m", "a", "y">>, <<"j", "u", "n">>, <<"j", "u", "l">>, <<"a", "g", "o">>,
               <<"s", "e", "p">>, <<"s", "e", "p", "t">>, <<"o", "c", "t">>,
               <<"n", "o", "v">>, <<"d", "i", "c">>} |->
        CASE abbr = <<"e", "n", "e">> -> 1
          [] abbr = <<"f", "e", "b">> -> 2
          [] abbr = <<"m", "a", "r">> -> 3
          [] abbr = <<"a", "b", "r">> -> 4
          [] abbr = <<"m", "a", "y">> -> 5
          [] abbr = <<"j", "u", "n">> -> 6
          [] abbr = <<"j", "u", "l">> -> 7
          [] abbr = <<"a", "g", "o">> -> 8
          [] abbr = <<"s", "e", "p">> -> 9
          [] abbr = <<"s", "e", "p", "t">> -> 9
          [] abbr = <<"o", "c", "t">> -> 10
          [] abbr = <<"n", "o", "v">> -> 11
          [] abbr = <<"d", "i", "c">> -> 12]

TRUE_VALUES == {<<"1">>, <<"t">>, <<"t", "r", "u", "e">>, <<"s", "i">>, <<"s">>}

ESTADOS == {"cargado", "pendiente", "revisar", "otro distrito"}

FILTRO_OPTIONS == {"Todos los registros"} \cup ESTADOS

\* ODS_ESTADO_MAP.get(s.strip().lower(), "pendiente")
ODS_ESTADO_MAP(s) ==
    LET k == str_lower(str_strip(s))
    IN  CASE k = <<"+">> -> "cargado"
          [] k = <<"?">> -> "revisar"
          [] k = <<"x">> -> "otro distrito"
          [] k = <<"-">> -> "otro distrito"
          [] OTHER -> "pendiente"

----------------------------------------------------------------------------
(* The calendar, as datetime() and datetime.strptime() check it. *)

IsLeap(y) == (y % 4 = 0 /\ y % 100 # 0) \/ y % 400 = 0

DaysInMonth(y, m) ==
    IF m = 2 THEN (IF IsLeap(y) THEN 29 ELSE 28)
    ELSE IF m \in {4, 6, 9, 11} THEN 30 ELSE 31

\* datetime(y, m, d) does not raise ValueError.
ValidDate(y, m, d) ==
    /\ y \in 1..9999
    /\ m \in 1..12
    /\ d \in 1..DaysInMonth(y, m)

\* re.match(r'(\d{1,2})\s*([a-z]+)\s*(\d{4})', clean_str): the groups, or Null.
\* The match is anchored at the start only: what follows the year is ignored.
fecha_match(s) ==
    LET nd == RunLen(s, 1, DigitSet)
        w1 == RunLen(s, 1 + nd, Whitespace)
        nl == RunLen(s, 1 + nd + w1, LowerSet)
        w2 == RunLen(s, 1 + nd + w1 + nl, Whitespace)
        py == 1 + nd + w1 + nl + w2
    IN  IF /\ nd \in {1, 2}
           /\ nl >= 1
           /\ py + 3 <= Len(s)
           /\ \A j \in py..(py + 3) : s[j] \in DigitSet
        THEN Some([day |-> SubSeq(s, 1, nd),
                   month_abbr |-> SubSeq(s, 1 + nd + w1, nd + w1 + nl),
                   year |-> SubSeq(s, py, py + 3)])
        ELSE Null

\* datetime.strptime(clean_str, '%Y-%m-%d'): <<y, m, d>>, or Null when it raises.
\* It wants four digits, '-', a month of one or two digits, '-', a day of one or
\* two digits (or a blank and one digit), nothing after it, and a day of the
\* calendar.
strptime(s) ==
    LET nm == RunLen(s, 6, DigitSet)
        pd == 7 + nm
        blank == pd <= Len(s) /\ s[pd] = " "
        dstart == IF blank THEN pd + 1 ELSE pd
        ndd == RunLen(s, dstart, DigitSet)
        y == IntOf(SubSeq(s, 1, 4))
        m == IntOf(SubSeq(s, 6, 5 + nm))
        d == IntOf(SubSeq(s, dstart, Len(s)))
    IN  IF /\ Len(s) >= 8
           /\ \A j \in 1..4 : s[j] \in DigitSet
           /\ s[5] = "-"
           /\ nm \in {1, 2}
           /\ pd - 1 <= Len(s) /\ s[pd - 1] = "-"
           /\ IF blank THEN ndd = 1 ELSE ndd \in {1, 2}
           /\ dstart + ndd - 1 = Len(s)
           /\ (blank => d # 0)
           /\ ValidDate(y, m, d)
        THEN Some(<<y, m, d>>)
        ELSE Null

----------------------------------------------------------------------------
(* Field normalizers. *)

\* normalizar_fecha(fecha_str), with datetime.now().strftime(DATE_FORMAT) = hoy.
\* Null stands for None, both as the argument and as the result.
normalizar_fecha(fecha_str, hoy) ==
    IF IsNull(fecha_str)
    THEN Some(hoy)
    ELSE LET clean_str == str_strip(str_remove_dots(str_lower(Val(fecha_str))))
             match == fecha_match(clean_str)
             known == ~IsNull(match) /\ Val(match).month_abbr \in DOMAIN MONTH_MAPPING
         IN  IF known
             THEN LET y == IntOf(Val(match).year)
                      m == MONTH_MAPPING[Val(match).month_abbr]
                      d == IntOf(Val(match).day)
                  IN  IF ValidDate(y, m, d) THEN Some(strftime(y, m, d)) ELSE Null
             ELSE IF ~IsNull(strptime(clean_str)) THEN Some(clean_str) ELSE Null

\* The 'normalizado' expression of procesar_csv:
\* when(col.cast(Utf8).str.to_lowercase().is_in(TRUE_VALUES)).then(1).otherwise(0)
normalizar_flag(raw) ==
    IF ~IsNull(raw) /\ str_lower(Val(raw)) \in TRUE_VALUES THEN 1 ELSE 0

----------------------------------------------------------------------------
(* Data frames. *)

\* One row under DB_COLUMNS / FINAL_SCHEMA; every cell is nullable.
Row(cli, med, usu, dom, norm, alta, interv, est) ==
    [nro_cli |-> cli, nro_med |-> med, usuario |-> usu, domicilio |-> dom,
     normalizado |-> norm, fecha_alta |-> alta, fecha_intervencion |-> interv,
     estado |-> est]

\* The rows of df at the positions in idx, in the order of df.
TakeRows(df, idx) ==
    LET F[n \in 0..Len(df)] ==
            IF n = 0 THEN <<>>
            ELSE IF n \in idx THEN Append(F[n - 1], df[n]) ELSE F[n - 1]
    IN  F[Len(df)]

\* df.unique(subset=['nro_cli'], keep='first'): of the rows with one nro_cli
\* (null counts as a value) the first stays.  The order polars gives the result
\* is not fixed; the order of df is kept here, and no operation reads it after
\* a unique() has left one row per key.
unique_keep_first(df) ==
    TakeRows(df, {i \in DOMAIN df : \A j \in 1..(i - 1) : df[j].nro_cli # df[i].nro_cli})

\* df.unique(subset=['nro_cli'], keep='last')
unique_keep_last(df) ==
    TakeRows(df, {i \in DOMAIN df : \A j \in (i + 1)..Len(df) : df[j].nro_cli # df[i].nro_cli})

\* A cell of a numeric column as the reader delivers it: an integer, an empty
\* cell, or a text that is no number.
IntCell(n) == [kind |-> "int", val |-> n]
NullCell == [kind |-> "null", val |-> 0]
TextCell == [kind |-> "text", val |-> 0]

\* pl.col(c).cast(pl.Int64) is strict: a text that is no number raises.
cast_raises(cell) == cell.kind = "text"
cast_int64(cell) == IF cell.kind = "int" THEN Some(cell.val) ELSE Null

\* datetime.now(), as <<y, m, d>>; the operations of a session run on one day.
HoyDate == <<2026, 11, 2>>

\* datetime.now().strftime(DATE_FORMAT)
Hoy == strftime(HoyDate[1], HoyDate[2], HoyDate[3])

----------------------------------------------------------------------------
(* procesar_csv *)

\* Lines 141-158 and 161-163 on one row that passed the date filter.
csv_row(r, fecha) ==
    Row(cast_int64(r.NROCLI), cast_int64(r.NUMERO_MEDIDOR), r.FULLNAME,
        r.DOMICILIO_COMERCIAL, Some(normalizar_flag(r.NORMALIZADO)), fecha,
        Some(Hoy), Some("pendiente"))

\* map_elements(normalizar_fecha) skips null cells (polars' skip_nulls), so an
\* empty FECHA_ALTA stays null and the row is filtered out with the failures.
csv_fecha(r) == IF IsNull(r.FECHA_ALTA) THEN Null ELSE normalizar_fecha(r.FECHA_ALTA, Hoy)

\* The rows of the upload that survive .filter(fecha_alta.is_not_null()).
csv_filtered(rows) == SelectSeq(rows, LAMBDA r : ~IsNull(csv_fecha(r)))

\* The strict casts of lines 161-163 raise, and the except of line 178 catches.
csv_raises(rows) ==
    \E i \in DOMAIN csv_filtered(rows) :
        cast_raises(csv_filtered(rows)[i].NROCLI) \/ cast_raises(csv_filtered(rows)[i].NUMERO_MEDIDOR)

\* df_csv after line 163.
csv_frame(rows) ==
    LET kept == csv_filtered(rows)
    IN  [i \in DOMAIN kept |-> csv_row(kept[i], csv_fecha(kept[i]))]

\* The merge of lines 165-174: existing rows first, keep='first'.
csv_merge(existing, df_csv) ==
    IF Len(existing) > 0
    THEN unique_keep_first(existing \o df_csv)
    ELSE unique_keep_first(df_csv)

\* st.session_state.data after procesar_csv(rows).
procesar_csv_data(existing, rows) ==
    IF csv_raises(rows) THEN existing ELSE csv_merge(existing, csv_frame(rows))

----------------------------------------------------------------------------
(* procesar_ods and the merge at the top level *)

\* Lines 205-218 on one row: the state from column X, the other columns cast,
\* fecha_intervencion (no column of the sheet) filled with null.
ods_row(r) ==
    Row(cast_int64(r.NROCLI), cast_int64(r.NUMERO_MEDIDOR), r.FULLNAME,
        r.DOMICILIO_COMERCIAL, cast_int64(r.NORMALIZADO), r.FECHA_ALTA, Null,
        Some(ODS_ESTADO_MAP(IF IsNull(r.X) THEN <<>> ELSE Val(r.X))))

\* col_x.upper() != 'X'
ods_header_ok(col_x) == col_x \in {"X", "x"}

ods_raises(rows) ==
    \E i \in DOMAIN rows :
        \/ cast_raises(rows[i].NROCLI)
        \/ cast_raises(rows[i].NUMERO_MEDIDOR)
        \/ cast_raises(rows[i].NORMALIZADO)

\* procesar_ods without the check of the first column (lines 199-202).
procesar_ods_sin_control(file) ==
    IF Len(file.rows) = 0 THEN Null
    ELSE IF ods_raises(file.rows) THEN Null
    ELSE Some([i \in DOMAIN file.rows |-> ods_row(file.rows[i])])

\* procesar_ods(uploaded_file): Null stands for None, Some(df) for a frame.
procesar_ods(file) ==
    IF Len(file.rows) = 0 THEN Null
    ELSE IF ~ods_header_ok(file.col_x) THEN Null
    ELSE IF ods_raises(file.rows) THEN Null
    ELSE Some([i \in DOMAIN file.rows |-> ods_row(file.rows[i])])

\* Lines 283-287.
top_level_merge(existing, df_nuevo) ==
    IF IsNull(df_nuevo) THEN existing
    ELSE IF Len(existing) > 0
         THEN unique_keep_last(existing \o Val(df_nuevo))
         ELSE Val(df_nuevo)

----------------------------------------------------------------------------
(* cargar_db *)

\* Lines 103-116: the rows of table desvinculados, fecha_intervencion filled.
db_frame(rows) ==
    [i \in DOMAIN rows |->
        IF IsNull(rows[i].fecha_intervencion)
        THEN [rows[i] EXCEPT !.fecha_intervencion = Some(Hoy)]
        ELSE rows[i]]

\* SELECT * FROM desvinculados raises sqlite3.OperationalError without the
\* table; pl.col('fecha_intervencion') raises without the column.
db_raises(file) == ~file.tabla \/ ~file.columna

cargar_db_data(existing, file) == IF db_raises(file) THEN existing ELSE db_frame(file.rows)

----------------------------------------------------------------------------
(* The editor and "Guardar cambios" *)

\* Lines 305-308: the rows the editor shows.
df_to_edit(df, filtro_estado) ==
    IF filtro_estado = "Todos los registros"
    THEN df
    ELSE SelectSeq(df, LAMBDA r : r.estado = Some(filtro_estado))

\* pd.to_datetime(col, format=DATE_FORMAT, errors='coerce').fillna(hoy): a
\* null or unreadable date is shown, and later saved, as today.
to_datetime_fillna(cell) ==
    IF IsNull(cell) \/ IsNull(strptime(Val(cell))) THEN Some(HoyDate) ELSE strptime(Val(cell))

\* Lines 313-330: the frame handed to st.data_editor, dates as datetimes.
df_edit_pandas(df) ==
    [i \in DOMAIN df |->
        [df[i] EXCEPT !.fecha_intervencion = to_datetime_fillna(df[i].fecha_intervencion),
                      !.fecha_alta = to_datetime_fillna(df[i].fecha_alta)]]

\* What st.data_editor returns after one action of the user: nothing, a row
\* deleted, the state or the nro_cli of a row changed, or a row added.  An
\* added row holds what the user may type (nro_cli, estado, fecha_intervencion);
\* the disabled columns stay empty.
data_editor(frame, edit) ==
    CASE edit.kind = "none" -> frame
      [] edit.kind = "delete" -> TakeRows(frame, DOMAIN frame \ {edit.i})
      [] edit.kind = "estado" -> [frame EXCEPT ![edit.i].estado = Some(edit.estado)]
      [] edit.kind = "nro_cli" -> [frame EXCEPT ![edit.i].nro_cli = edit.nro_cli]
      [] edit.kind = "add" ->
            Append(frame, Row(edit.nro_cli, Null, Null, Null, Null, Null,
                              Some(HoyDate), Some(edit.estado)))

\* pl.col(c).dt.strftime(DATE_FORMAT)
dt_strftime(cell) ==
    IF IsNull(cell) THEN Null ELSE Some(strftime(Val(cell)[1], Val(cell)[2], Val(cell)[3]))

\* Lines 357-369: df_committed_polars.
df_committed(edited) ==
    LET kept == SelectSeq(edited, LAMBDA r : ~IsNull(r.nro_cli) /\ Val(r.nro_cli) > 0)
    IN  [i \in DOMAIN kept |->
            [kept[i] EXCEPT !.fecha_intervencion = dt_strftime(kept[i].fecha_intervencion),
                            !.fecha_alta = dt_strftime(kept[i].fecha_alta)]]

\* Lines 379-381: ~is_in() is null on a null nro_cli, and filter drops it.
df_unaffected(df_full_original, committed) ==
    SelectSeq(df_full_original,
              LAMBDA r : ~IsNull(r.nro_cli)
                         /\ \A i \in DOMAIN committed : committed[i].nro_cli # r.nro_cli)

\* Lines 352-384: st.session_state.data after the commit.
guardar_cambios_data(existing, filtro_estado, edit) ==
    LET committed == df_committed(data_editor(df_edit_pandas(df_to_edit(existing, filtro_estado)), edit))
    IN  df_unaffected(existing, committed) \o committed

\* Lines 313-330, 357 and 384: pl.concat(how="vertical") raises when the
\* schemas of its frames differ.  A null in an integer column of the edited
\* frame (a row added, a nro_cli cleared, a null stored before) makes pandas
\* hold the column as float or object, and fillna(hoy_datetime) on a null or
\* unreadable date puts a date among datetimes; which types come back from
\* pl.from_pandas depends on the versions of pandas, Streamlit and polars.
\* On such a frame the commit either goes through or raises.
commit_may_raise(existing, filtro_estado, edit) ==
    LET shown == df_to_edit(existing, filtro_estado)
        edited == data_editor(df_edit_pandas(shown), edit)
        NoDate(cell) == IF IsNull(cell) THEN TRUE ELSE IsNull(strptime(Val(cell)))
    IN  \/ \E i \in DOMAIN shown :
              NoDate(shown[i].fecha_alta) \/ NoDate(shown[i].fecha_intervencion)
        \/ \E i \in DOMAIN edited :
              \/ IsNull(edited[i].nro_cli) \/ IsNull(edited[i].nro_med)
              \/ IsNull(edited[i].normalizado) \/ IsNull(edited[i].fecha_alta)

----------------------------------------------------------------------------
(* The uploads and the edits the model draws from. *)

\* All sequences over S of length lo..hi.
SeqsOf(S, lo, hi) == UNION {[1..n -> S] : n \in lo..hi}

FechaAbreviada == <<"3", " ", "o", "c", "t", ".", " ", "2", "0", "1", "1">>
FechaImposible == <<"3", "1", " ", "n", "o", "v", " ", "2", "0", "1", "1">>
FechaCanonica == <<"2", "0", "1", "1", "-", "1", "0", "-", "0", "3">>

CsvRowOf(cli, fecha) ==
    [NROCLI |-> cli, NUMERO_MEDIDOR |-> IntCell(7), FULLNAME |-> Some("ana"),
     DOMICILIO_COMERCIAL |-> Some("calle 1"), NORMALIZADO |-> Some(<<"S", "I">>),
     FECHA_ALTA |-> fecha]

\* Rows of a delimited-text upload: good rows, a row whose date is no day of
\* the calendar, rows whose key is empty, no number, or 0.
CsvRows ==
    {CsvRowOf(IntCell(k), Some(FechaAbreviada)) : k \in 1..MaxKey}
    \cup {CsvRowOf(IntCell(1), Some(FechaImposible))}
    \cup {CsvRowOf(c, Some(FechaAbreviada)) : c \in {NullCell, TextCell, IntCell(0)}}

CsvFiles == SeqsOf(CsvRows, 0, MaxBatch)

OdsRowOf(x, cli) ==
    [X |-> x, NROCLI |-> cli, NUMERO_MEDIDOR |-> IntCell(7), FULLNAME |-> Some("ana"),
     DOMICILIO_COMERCIAL |-> Some("calle 1"), NORMALIZADO |-> IntCell(1),
     FECHA_ALTA |-> Some(FechaAbreviada)]

\* Rows of a spreadsheet upload: marked '+' or unmarked, and rows whose key is
\* empty or no number.
OdsRows ==
    {OdsRowOf(x, IntCell(k)) : x \in {Some(<<"+">>), Null}, k \in 1..MaxKey}
    \cup {OdsRowOf(Null, c) : c \in {NullCell, TextCell}}

OdsFiles == [col_x : {"X", "x", "NAME"}, rows : SeqsOf(OdsRows, 0, MaxBatch)]

DbRowOf(k, estado) ==
    Row(Some(k), Some(7), Some("ana"), Some("calle 1"), Some(1), Some(FechaCanonica),
        IF estado = "pendiente" THEN Null ELSE Some(Hoy), Some(estado))

\* Rows of table desvinculados in a snapshot.
DbRows == {DbRowOf(k, e) : k \in 1..MaxKey, e \in {"pendiente", "cargado"}}

\* The contents of the table as a session exports it: one row per key.
DbTables ==
    {t \in SeqsOf(DbRows, 0, MaxBatch) :
        \A i, j \in DOMAIN t : i # j => t[i].nro_cli # t[j].nro_cli}

\* Snapshots: without the table, without the column, or whole.
DbFiles ==
    {[tabla |-> FALSE, columna |-> FALSE, rows |-> <<>>]}
    \cup {[tabla |-> TRUE, columna |-> FALSE, rows |-> <<r>>] : r \in DbRows}
    \cup [tabla : {TRUE}, columna : {TRUE}, rows : DbTables]

\* What the user may type into nro_cli: nothing, 0, or a client number.
KeyInputs == {Null, Some(0)} \cup {Some(k) : k \in 1..MaxKey}

\* The filters the user picks among FILTRO_OPTIONS.
FiltroInputs == {"Todos los registros", "pendiente", "cargado"}

\* The single actions of the user on a frame of the editor.
Edits(frame) ==
    {[kind |-> "none"]}
    \cup {[kind |-> "delete", i |-> i] : i \in DOMAIN frame}
    \cup {[kind |-> "estado", i |-> i, estado |-> "cargado"] : i \in DOMAIN frame}
    \cup {[kind |-> "nro_cli", i |-> i, nro_cli |-> k] : i \in DOMAIN frame, k \in KeyInputs}
    \cup {[kind |-> "add", nro_cli |-> k, estado |-> "pendiente"] : k \in KeyInputs}

----------------------------------------------------------------------------
(* The session.  data is st.session_state.data.  req is what the widgets   *)
(* hold when the script runs: the file in an uploader, or the filter and   *)
(* the edit of the grid when "Guardar cambios" is pressed.  last is how the *)
(* last operation ended: "ok", "sin tabla" (the st.error of line 123),     *)
(* "sin columna X" (line 201) or "excepcion" (lines 126, 179, 221).  call  *)
(* is used by SpecNorm only.  One run of the script is a sequence of the   *)
(* operations below.                                                       *)

Idle == [op |-> "idle"]
NoCall == [fn |-> "none", arg |-> Null, ret |-> Null, done |-> FALSE]

\* Lines 263-266.
Init ==
    /\ data = <<>>
    /\ db_cargada = FALSE
    /\ req = Idle
    /\ last = "ok"
    /\ call = NoCall

\* Line 273: a snapshot is put into the first uploader.
SubirDb ==
    /\ req = Idle
    /\ \E file \in DbFiles :
        /\ Len(cargar_db_data(data, file)) <= MaxRows
        /\ req' = [op |-> "cargar_db", file |-> file]
    /\ last' = "ok"
    /\ UNCHANGED <<data, db_cargada, call>>

\* Lines 274-275 and cargar_db.
CargarDb ==
    /\ req.op = "cargar_db"
    /\ data' = cargar_db_data(data, req.file)
    /\ db_cargada' = ~db_raises(req.file)
    /\ last' = IF ~req.file.tabla THEN "sin tabla"
               ELSE IF ~req.file.columna THEN "excepcion"
               ELSE "ok"
    /\ req' = Idle
    /\ UNCHANGED call

\* Line 278: a .csv file is put into the second uploader.
SubirCsv ==
    /\ req = Idle
    /\ \E rows \in CsvFiles :
        /\ Len(procesar_csv_data(data, rows)) <= MaxRows
        /\ req' = [op |-> "procesar_csv", file |-> rows]
    /\ last' = "ok"
    /\ UNCHANGED <<data, db_cargada, call>>

\* Lines 279-289 on a .csv upload: procesar_csv returns None, so the merge of
\* lines 283-287 does not run.
ImportarCsv ==
    /\ req.op = "procesar_csv"
    /\ data' = procesar_csv_data(data, req.file)
    /\ last' = IF csv_raises(req.file) THEN "excepcion" ELSE "ok"
    /\ req' = Idle
    /\ UNCHANGED <<db_cargada, call>>

\* Line 278: an .ods file is put into the second uploader.
SubirOds ==
    /\ req = Idle
    /\ \E file \in OdsFiles :
        /\ Len(top_level_merge(data, procesar_ods(file))) <= MaxRows
        /\ req' = [op |-> "procesar_ods", file |-> file]
    /\ last' = "ok"
    /\ UNCHANGED <<data, db_cargada, call>>

\* Lines 279-289 on an .ods upload.
ImportarOds ==
    /\ req.op = "procesar_ods"
    /\ data' = top_level_merge(data, procesar_ods(req.file))
    /\ last' = IF Len(req.file.rows) = 0 THEN "ok"
               ELSE IF ~ods_header_ok(req.file.col_x) THEN "sin columna X"
               ELSE IF ods_raises(req.file.rows) THEN "excepcion"
               ELSE "ok"
    /\ req' = Idle
    /\ UNCHANGED <<db_cargada, call>>

\* Lines 292-349: the editor is shown on a dataset that is not empty; the
\* user picks a filter and edits the grid.
EditarGrilla ==
    /\ req = Idle
    /\ Len(data) > 0
    /\ \E filtro_estado \in FiltroInputs :
        \E edit \in Edits(df_to_edit(data, filtro_estado)) :
            /\ Len(guardar_cambios_data(data, filtro_estado, edit)) <= MaxRows
            /\ req' = [op |-> "guardar", filtro |-> filtro_estado, edit |-> edit]
    /\ last' = "ok"
    /\ UNCHANGED <<data, db_cargada, call>>

\* Lines 352-389: "Guardar cambios".  An exception of the commit is not
\* caught: the run of the script ends with the dataset as it was.
GuardarCambios ==
    /\ req.op = "guardar"
    /\ \E raises \in {b \in BOOLEAN : b => commit_may_raise(data, req.filtro, req.edit)} :
        /\ data' = IF raises THEN data
                            ELSE guardar_cambios_data(data, req.filtro, req.edit)
        /\ last' = IF raises THEN "excepcion" ELSE "ok"
    /\ req' = Idle
    /\ UNCHANGED <<db_cargada, call>>

Next ==
    \/ SubirDb \/ CargarDb
    \/ SubirCsv \/ ImportarCsv
    \/ SubirOds \/ ImportarOds
    \/ EditarGrilla \/ GuardarCambios

Spec == Init /\ [][Next]_vars

----------------------------------------------------------------------------
(* The normalizers on their own: SpecNorm draws an argument and applies    *)
(* normalizar_fecha or the 'normalizado' expression to it.                 *)

Concat3(a, b, c) == a \o b \o c

\* '<day><sep><month><sep><year><tail>'
FechasAbreviadas ==
    {Concat3(d \o sep, m \o sep, y \o t) :
        d \in {<<"3">>, <<"0", "3">>, <<"2", "9">>, <<"3", "1">>, <<"0">>, <<"1", "2", "3">>},
        sep \in {<<" ">>, <<>>},
        m \in {<<"o", "c", "t", ".">>, <<"O", "c", "t">>, <<"n", "o", "v">>, <<"f", "e", "b">>,
               <<"s", "e", "p", "t">>, <<"x", "y", "z">>},
        y \in {<<"2", "0", "1", "1">>, <<"2", "0", "1", "2">>, <<"0", "0", "0", "0">>, <<"2", "0", "1">>},
        t \in {<<>>, <<"x">>}}

\* '<year>-<month>-<day><tail>'
FechasCanonicas ==
    {Concat3(y \o <<"-">>, m \o <<"-">>, d \o t) :
        y \in {<<"2", "0", "2", "5">>, <<"2", "0", "2", "4">>, <<"0", "0", "0", "0">>},
        m \in {<<"0", "1">>, <<"1">>, <<"0", "2">>, <<"1", "1">>, <<"1", "3">>, <<"0", "0">>},
        d \in {<<"1", "5">>, <<"5">>, <<" ", "5">>, <<"2", "9">>, <<"3", "1">>, <<"3", "2">>},
        t \in {<<>>, <<" ">>, <<"x">>}}

FechaInputs ==
    {Null, Some(<<>>), Some(<<" ">>), Some(<<"n", "o", "n", "e">>), Some(<<"n", "a", "n">>),
     Some(<<"N", "o", "n", "e">>), Some(<<"h", "o", "y">>)}
    \cup {Some(f) : f \in FechasAbreviadas \cup FechasCanonicas}

FlagInputs ==
    {Null}
    \cup {Some(f) : f \in SeqsOf({"s", "S", "i", "1", "t", " "}, 0, 2)}
    \cup {Some(<<"S", "I">>), Some(<<" ", "T", "r", "u", "e", " ">>), Some(<<"t", "r", "u", "e">>),
          Some(<<"T", "R", "U", "E">>), Some(<<"n", "o">>), Some(<<"2">>), Some(<<"0">>),
          Some(<<"s", "i", " ">>), Some(<<"y", "e", "s">>), Some(<<"f", "a", "l", "s", "e">>),
          Some(<<"1", ".", "0">>)}

InitNorm ==
    /\ data = <<>>
    /\ db_cargada = FALSE
    /\ req = Idle
    /\ last = "ok"
    /\ call \in [fn : {"normalizar_fecha"}, arg : FechaInputs, ret : {Null}, done : {FALSE}]
                \cup [fn : {"normalizado"}, arg : FlagInputs, ret : {Null}, done : {FALSE}]

NormalizarFecha ==
    /\ call.fn = "normalizar_fecha" /\ ~call.done
    /\ call' = [call EXCEPT !.ret = normalizar_fecha(call.arg, Hoy), !.done = TRUE]
    /\ UNCHANGED <<data, db_cargada, req, last>>

NormalizarFlag ==
    /\ call.fn = "normalizado" /\ ~call.done
    /\ call' = [call EXCEPT !.ret = Some(normalizar_flag(call.arg)), !.done = TRUE]
    /\ UNCHANGED <<data, db_cargada, req, last>>

NextNorm == NormalizarFecha \/ NormalizarFlag

SpecNorm == InitNorm /\ [][NextNorm]_vars

----------------------------------------------------------------------------
(* The claims.  In a step that runs an operation, req is what the          *)
(* operation is given, data the resident dataset before it and data' the   *)
(* resident dataset after it.                                              *)

Keys(df) == {df[i].nro_cli : i \in DOMAIN df}

\* The rows the editor showed, and the frame the commit receives.
Visible == df_to_edit(data, req.filtro)
EditedSubset == data_editor(df_edit_pandas(Visible), req.edit)

\* An import that was not rejected, and its normalized batch.
ImportAccepted ==
    \/ req.op = "procesar_csv" /\ ~csv_raises(req.file)
    \/ req.op = "procesar_ods" /\ ~IsNull(procesar_ods(req.file))
Batch == IF req.op = "procesar_csv" THEN csv_frame(req.file) ELSE Val(procesar_ods(req.file))

\* The rows of an upload, and the keys of those of them that are valid: a
\* positive number as the key and a signup date the normalizer accepts.
UploadRows == IF req.op = "procesar_csv" THEN req.file ELSE req.file.rows
ValidKeys ==
    {Some(UploadRows[i].NROCLI.val) :
        i \in {j \in DOMAIN UploadRows :
                 /\ UploadRows[j].NROCLI.kind = "int"
                 /\ UploadRows[j].NROCLI.val > 0
                 /\ ~IsNull(normalizar_fecha(UploadRows[j].FECHA_ALTA, Hoy))}}

\* C1: key uniqueness: the resident dataset never holds two records with
\* the same nro_cli, after any sequence of loads, imports and commits.
C1_KeyUniqueness ==
    \A i, j \in DOMAIN data : i # j => data[i].nro_cli # data[j].nro_cli

\* C2: reconciliation deletion: after a commit, no record of the resident
\* dataset has a key that was in the visible subset and is absent from the
\* edited subset.
C2_ReconciliationDeletion ==
    [][req.op = "guardar" =>
         \A k \in Keys(Visible) \ Keys(EditedSubset) :
             \A i \in DOMAIN data' : data'[i].nro_cli # k]_vars

\* C3: batch upsert is last-write-wins: after an accepted import (delimited
\* text or spreadsheet) into a resident dataset that is not empty, every key
\* of the batch is held with a record of the batch, and every resident record
\* whose key is not in the batch is still there, unchanged.
C3_LastWriteWins ==
    [][(ImportAccepted /\ Len(data) > 0) =>
         /\ \A k \in Keys(Batch) :
               /\ \E i \in DOMAIN data' : data'[i].nro_cli = k
               /\ \A i \in DOMAIN data' :
                     data'[i].nro_cli = k => data'[i] \in Range(Batch)
         /\ \A i \in DOMAIN data :
               data[i].nro_cli \notin Keys(Batch) => data[i] \in Range(data')]_vars

\* C4: upsert idempotence: importing the batch that was just imported once
\* more leaves the same set of records.
C4_UpsertIdempotence ==
    [][/\ req.op = "procesar_csv" =>
            Range(procesar_csv_data(data', req.file)) = Range(data')
       /\ req.op = "procesar_ods" =>
            Range(top_level_merge(data', procesar_ods(req.file))) = Range(data')]_vars

\* C5: format errors are all-or-nothing: a spreadsheet whose first column is
\* not named 'X' (in any case), and a snapshot without table desvinculados,
\* leave the resident dataset as it was.
C5_FormatErrorsAllOrNothing ==
    [][(\/ req.op = "procesar_ods" /\ ~ods_header_ok(req.file.col_x)
        \/ req.op = "cargar_db" /\ ~req.file.tabla) =>
         data' = data]_vars

\* A spreadsheet with rows was rejected for its first column while the
\* resident dataset held records.
C5_Witness == last = "sin columna X" /\ Len(data) > 0

\* C6: row errors are local: an import (of a spreadsheet, one whose first
\* column is X) brings in every valid row of the upload, and no key enters
\* the resident dataset but those of the valid rows.
C6_RowErrorsLocal ==
    [][(\/ req.op = "procesar_csv"
        \/ req.op = "procesar_ods" /\ ods_header_ok(req.file.col_x)) =>
         /\ \A k \in ValidKeys : \E i \in DOMAIN data' : data'[i].nro_cli = k
         /\ \A i \in DOMAIN data' :
               data'[i].nro_cli \in Keys(data) \cup ValidKeys]_vars

\* C7: record completeness: every record of the resident dataset has its
\* eight fields non-null and a nro_cli above 0.
C7_RecordCompleteness ==
    \A i \in DOMAIN data :
        /\ \A f \in DOMAIN data[i] : ~IsNull(data[i][f])
        /\ Val(data[i].nro_cli) > 0

\* C8: boolean normalizer: the flag is 1 exactly when the raw value, case-
\* folded and trimmed, is one of "1", "t", "true", "si", "s", and 0 otherwise
\* (null included).
C8_BooleanNormalizer ==
    (call.fn = "normalizado" /\ call.done) =>
        call.ret = Some(IF ~IsNull(call.arg)
                           /\ str_strip(str_lower(Val(call.arg))) \in TRUE_VALUES
                        THEN 1 ELSE 0)

\* The date the claim C9 expects of normalizar_fecha: today for null, the
\* empty string, "none" and "nan"; the day named by '<day> <month
\* abbreviation>[.] <year>'; a canonical YYYY-MM-DD string itself; else none.
C9_Expected(arg) ==
    IF IsNull(arg) \/ Val(arg) \in {<<>>, <<"n", "o", "n", "e">>, <<"n", "a", "n">>}
    THEN Some(Hoy)
    ELSE LET s == str_strip(str_lower(Val(arg)))
             nd == RunLen(s, 1, DigitSet)
             w1 == RunLen(s, 1 + nd, Whitespace)
             nl == RunLen(s, 1 + nd + w1, LowerSet)
             pa == 1 + nd + w1 + nl
             dot == IF pa <= Len(s) /\ s[pa] = "." THEN 1 ELSE 0
             w2 == RunLen(s, pa + dot, Whitespace)
             py == pa + dot + w2
             abbr == SubSeq(s, 1 + nd + w1, nd + w1 + nl)
             t == Val(arg)
         IN  IF /\ nd \in {1, 2}
                /\ abbr \in DOMAIN MONTH_MAPPING
                /\ py + 3 = Len(s)
                /\ \A j \in py..Len(s) : s[j] \in DigitSet
                /\ ValidDate(IntOf(SubSeq(s, py, Len(s))), MONTH_MAPPING[abbr],
                             IntOf(SubSeq(s, 1, nd)))
             THEN Some(strftime(IntOf(SubSeq(s, py, Len(s))), MONTH_MAPPING[abbr],
                                IntOf(SubSeq(s, 1, nd))))
             ELSE IF /\ Len(t) = 10
                     /\ \A j \in {1, 2, 3, 4, 6, 7, 9, 10} : t[j] \in DigitSet
                     /\ t[5] = "-" /\ t[8] = "-"
                     /\ ValidDate(IntOf(SubSeq(t, 1, 4)), IntOf(SubSeq(t, 6, 7)),
                                  IntOf(SubSeq(t, 9, 10)))
                  THEN arg
                  ELSE Null

\* C9: date normalizer: normalizar_fecha returns today for null, "", "none"
\* and "nan", the named day for '<day> <abbreviation>[.] <year>', a canonical
\* date unchanged, and fails on every other input.
C9_DateNormalizer ==
    (call.fn = "normalizar_fecha" /\ call.done) => call.ret = C9_Expected(call.arg)

\* C10: reconciliation frame: a commit leaves every resident record whose
\* key was not in the visible subset in the dataset, unchanged.
C10_ReconciliationFrame ==
    [][req.op = "guardar" =>
         \A i \in DOMAIN data :
             data[i].nro_cli \notin Keys(Visible) => data[i] \in Range(data')]_vars

====
